---- MODULE Spec2Model ----
(***************************************************************************)
(* The paid-blog server.  Credits variant: registerUser, loginUser,         *)
(* createPost, purchaseCredits, getUserProfile, getUserPosts,              *)
(* getCreditHistory and getPublicPosts over the three relations users,     *)
(* posts and credit_purchases, and the purchase of credits through the     *)
(* browser application.  24 h variant: createPost, getPosts, getPost,      *)
(* updatePost, repost and deletePost over the relation posts.              *)
(*                                                                         *)
(* Every handler is an async function.  Each awaited database call is one  *)
(* step, taken together with the synchronous code that follows it up to    *)
(* the next database call; steps of different requests interleave freely.  *)
(* The handlers open no transaction, so each database call commits on its  *)
(* own.  A field of a request's input is drawn in the step that first      *)
(* uses it.                                                                *)
(***************************************************************************)
EXTENDS Integers, Sequences, FiniteSets, Bags, TLC

\* ---------------------------------------------------------------- bounds
MaxRequests == 2       \* requests being served at the same time
MaxUsers == 1          \* rows of the users table
MaxPosts == 2          \* rows of the posts table
MaxPurchases == 2      \* rows of the credit_purchases table
MaxTime == 0           \* last millisecond Date.now() can return
NumRandom == 2         \* distinct values Math.random() can yield
RaceRequests == 2      \* createPost requests of the race on one balance
MaxRaceCredits == 11   \* largest balance the race starts from
TicksPerDay == 2       \* ticks of the clock in 24 hours
MaxClock == 3          \* last tick of the clock
MaxLatency == 1        \* ticks a request can take to be answered
MaxFeePosts == 2       \* posts the 24 h variant creates in all
MaxScenarioRequests == 4   \* requests of a session
MaxRegistered == 3     \* registrations that succeed in a run of registrations
MaxPublicUsers == 2    \* users behind the public listing
MaxPublicPosts == 2    \* posts behind the public listing
MaxCreatedAt == 1      \* last tick at which a post behind the listing was created
MaxAccounts == 2       \* rows of the users table behind the account handlers
MaxFeeRaceRequests == 3    \* requests of the 24 h variant that interleave
MaxFeeRaceClock == 1   \* last tick of the clock while they interleave
MaxClicks == 2         \* purchases made through the application

\* ------------------------------------------------------ program constants
InitialCredits == 1    \* credits of a freshly registered user
PostCost == 5          \* creditsRequired of every post but the first
creditsPerDollar == 5  \* exchange rate of a purchase
NumericScale == 2      \* fractional digits of the amount_paid and price columns
ExpiryHours == 24      \* hours a post stays active after it is posted
SaltBytes == 16        \* bytes of the salt registerUser draws
DigestBytes == 32      \* bytes of a SHA-256 digest

\* the addresses a registration can carry
Emails == 1..MaxUsers
\* user ids a request can name: every row that can exist and one id that never does
UserIds == 1..(MaxUsers + 1)
\* input.credits of a purchase
CreditInputs == {1, 4}
\* input.credits of the purchases of a session
ScenarioCredits == 25
PaymentMethods == {"credit_card", "paypal", "bank_transfer"}
\* what a request may carry as payment_method (the handler is also called
\* with a value outside the enum)
MethodInputs == PaymentMethods \cup {"invalid_method"}
\* payment_details, as the set of fields that are present and non-empty
DetailInputs == {{}, {"card_number"}, {"paypal_email"}, {"bank_account"}}

ErrUserNotFound == "User not found"
ErrInsufficient == "Insufficient credits"
ErrCardRequired == "Credit card number is required for credit card payments"
ErrPaypalRequired == "PayPal email is required for PayPal payments"
ErrBankRequired == "Bank account is required for bank transfer payments"
ErrInvalidMethod == "Invalid payment method"
ErrDatabase == "database error"
ErrDuplicateEmail == "duplicate key value violates unique constraint"

VARIABLES
  usersTable,            \* sequence of user rows
  postsTable,            \* sequence of post rows
  creditPurchasesTable,  \* sequence of purchase rows
  req,                   \* bag of the requests being served, each with its locals
  now,                   \* the wall clock, in ticks
  posts_id_seq,          \* last value the serial of posts.id has handed out
  client                 \* the state of the browser application

vars ==
  <<usersTable, postsTable, creditPurchasesTable, req, now, posts_id_seq, client>>

\* the application with nobody logged in: user is null
NoClient ==
  [user_id |-> 0, credits |-> 0, clicks |-> 0,
   call |-> [pc |-> "idle", currentCredits |-> 0, credits |-> 0, bonus |-> 0,
             accepted |-> FALSE]]

\* the locals of a request that has just arrived
Fresh ==
  [op |-> "none", pc |-> "start", userId |-> 0, email |-> 0,
   password |-> "none", started |-> 0, at |-> 0,
   user_credits |-> 0, isFirstPost |-> FALSE,
   payment_method |-> "none", payment_details |-> {}, timestamp |-> 0,
   credits |-> 0,
   error |-> "none", required |-> 0, available |-> 0,
   result |-> 0, amount_paid |-> [num |-> 0, den |-> 1], writes |-> 0]

InFlight == BagToSet(req)

\* a request arrives and takes its first step
Arrive(new) == req' = req (+) SetToBag({new})

\* a request takes a step
Step(old, new) == req' = (req (-) SetToBag({old})) (+) SetToBag({new})

\* a span of h hours, in ticks
Hours(h) == (h * TicksPerDay) \div 24

\* ------------------------------------------------------------ row lookups
\* db.select().from(usersTable).where(eq(usersTable.id, userId))
UsersById(userId) ==
  LET Test(u) == u.id = userId IN SelectSeq(usersTable, Test)

\* db.select().from(postsTable).where(eq(postsTable.user_id, userId))
PostsOfUser(userId) ==
  LET Test(p) == p.user_id = userId IN SelectSeq(postsTable, Test)

PurchasesOfUser(userId) ==
  LET Test(p) == p.user_id = userId IN SelectSeq(creditPurchasesTable, Test)

\* db.update(usersTable).set({credits: c}).where(eq(usersTable.id, userId))
SetCredits(userId, c) ==
  [i \in 1..Len(usersTable) |->
     IF usersTable[i].id = userId
       THEN [usersTable[i] EXCEPT !.credits = c]
       ELSE usersTable[i]]

\* how many requests of one kind will still insert a row
RECURSIVE CountIn(_, _, _)
CountIn(recs, op, pcs) ==
  IF recs = {} THEN 0
  ELSE LET rec == CHOOSE x \in recs : TRUE
       IN (IF rec.op = op /\ rec.pc \in pcs THEN CopiesIn(rec, req) ELSE 0)
          + CountIn(recs \ {rec}, op, pcs)

Pending(op, pcs) == CountIn(InFlight, op, pcs)

\* the handler throws: its locals are gone, the error is what the caller sees
Fail(op, userId, msg) ==
  [Fresh EXCEPT !.op = op, !.pc = "done", !.userId = userId, !.error = msg,
                !.started = now, !.at = now]

\* ------------------------------------------------------------ registerUser
\* A string of the credential column is the sequence of its parts between
\* colons.  A part is the hex text of random bytes or of a digest; bytes is
\* the count of bytes the hex text decodes to.

\* the text of input.password and of input.phone_number
Passwords == {"password1", "password2"}
PhoneNumbers == {"+1", "+2"}
\* what the requests carry where the password and the phone do not matter
AnyPassword == "password1"
AnyPhone == "+1"

\* randomBytes(16).toString('hex'): the k-th value the generator can yield
randomBytesHex(k) == [kind |-> "random", bytes |-> SaltBytes, k |-> k, of |-> <<>>]

AnySalt == randomBytesHex(1)

\* createHash('sha256').update(password + salt).digest('hex')
hashPassword(password, salt) ==
  [kind |-> "sha256", bytes |-> DigestBytes, k |-> 0, of |-> <<password, salt>>]

\* Math.random().toString(36).substring(2, 15): the k-th value it can yield
generateSalt(k) == [kind |-> "base36", bytes |-> 0, k |-> k, of |-> <<>>]

\* `${hash}:${salt}`, the credential the tests of loginUser store
createTestUser_password_hash(password, salt) ==
  <<hashPassword(password, salt), salt>>

\* salt + ':' + hashPassword(input.password, salt)
passwordHash(password, salt) == <<salt, hashPassword(password, salt)>>

\* no unique index on email
EmailTaken_Never(email) == FALSE

\* the unique index on users.email finds a row with the email
EmailTaken(email) == \E i \in 1..Len(usersTable) : usersTable[i].email = email

\* one insert; the unique index on email rejects a second row with the
\* email, the insert throws and the catch block rethrows
registerUser(email, password, salt, phone_number) ==
  IF EmailTaken(email)
    THEN /\ Arrive([Fail("registerUser", 0, ErrDuplicateEmail) EXCEPT
                     !.email = email])
         /\ UNCHANGED <<client, usersTable, postsTable, creditPurchasesTable, now,
                        posts_id_seq>>
    ELSE /\ usersTable' = Append(usersTable,
              [id |-> Len(usersTable) + 1, email |-> email,
               password_hash |-> passwordHash(password, salt),
               phone_number |-> phone_number,
               credits |-> InitialCredits, initial_credits |-> InitialCredits])
         /\ UNCHANGED <<client, postsTable, creditPurchasesTable, req, now, posts_id_seq>>

\* -------------------------------------------------------------- createPost
\* 1. the request arrives and the user row is read; an absent user ends it
createPost_SelectUser(userId) ==
  LET users == UsersById(userId) IN
    /\ Arrive(IF Len(users) = 0
                THEN Fail("createPost", userId, ErrUserNotFound)
                ELSE [Fresh EXCEPT !.op = "createPost", !.pc = "count_posts",
                                   !.userId = userId,
                                   !.started = now, !.at = now,
                                   !.user_credits = users[1].credits])
    /\ UNCHANGED <<client, usersTable, postsTable, creditPurchasesTable, now, posts_id_seq>>

\* isFirstPost ? 0 : 5
creditsRequired(isFirstPost) == IF isFirstPost THEN 0 ELSE PostCost

\* the check left out
SufficientCredits_Unchecked(isFirstPost, user_credits) == TRUE

\* the check made with > for >=
SufficientCredits_Strict(isFirstPost, user_credits) ==
  isFirstPost \/ user_credits > creditsRequired(isFirstPost)

\* 2. the credit check
SufficientCredits(isFirstPost, user_credits) ==
  isFirstPost \/ user_credits >= creditsRequired(isFirstPost)

\* the user's posts are read and the credit check is made; 3. the image is
\* written to the uploads directory
createPost_CountPosts(rec) ==
  /\ rec.op = "createPost" /\ rec.pc = "count_posts"
  /\ LET existingPosts == PostsOfUser(rec.userId)
         isFirstPost == Len(existingPosts) = 0
     IN Step(rec,
          IF ~SufficientCredits(isFirstPost, rec.user_credits)
            THEN [Fail("createPost", rec.userId, ErrInsufficient) EXCEPT
                    !.started = rec.started,
                    !.required = creditsRequired(isFirstPost),
                    !.available = rec.user_credits]
            ELSE [rec EXCEPT !.pc = "insert_post", !.at = now,
                             !.isFirstPost = isFirstPost])
  /\ UNCHANGED <<client, usersTable, postsTable, creditPurchasesTable, now, posts_id_seq>>

\* expiresAt.setHours(expiresAt.getHours() + 24), of a server whose local
\* time has no daylight saving
setHours24(t) == t + Hours(ExpiryHours)

\* `/uploads/${timestamp}-${input.image_filename}`
imagePath(timestamp, image_filename) == <<"/uploads", timestamp, image_filename>>

\* 4. the post row is inserted; a first post is returned at once.  The
\* handler has read Date.now() for the file name after the count and
\* new Date() for expires_at after the file was written, both before it sent
\* the insert; created_at and updated_at are the defaults of the columns,
\* the clock of the database when it runs the insert.  The title, the
\* description and the file name of the input are the same in every request.
createPost_InsertPost(rec) ==
  /\ rec.op = "createPost" /\ rec.pc = "insert_post"
  /\ \E timestamp \in rec.at..now : \E sent \in timestamp..now :
       postsTable' = Append(postsTable,
         [id |-> Len(postsTable) + 1, user_id |-> rec.userId,
          title |-> "title", description |-> "text",
          image_path |-> imagePath(timestamp, "image.jpg"),
          expires_at |-> setHours24(sent),
          created_at |-> now, updated_at |-> now,
          paid |-> ~rec.isFirstPost])
  /\ Step(rec, [rec EXCEPT !.pc = IF rec.isFirstPost THEN "done" ELSE "update_credits",
                           !.at = now,
                           !.result = Len(postsTable) + 1,
                           !.writes = @ + 1])
  /\ UNCHANGED <<client, usersTable, creditPurchasesTable, now, posts_id_seq>>

\* the cost not subtracted
DebitedCredits_Unpaid(user_credits, isFirstPost) == user_credits

\* the balance the paid path writes back
DebitedCredits(user_credits, isFirstPost) ==
  user_credits - creditsRequired(isFirstPost)

\* 5. the balance read in step 1, less the cost, is written back
createPost_UpdateCredits(rec) ==
  /\ rec.op = "createPost" /\ rec.pc = "update_credits"
  /\ usersTable' = SetCredits(rec.userId,
       DebitedCredits(rec.user_credits, rec.isFirstPost))
  /\ Step(rec, [rec EXCEPT !.pc = "done", !.at = now, !.writes = @ + 1])
  /\ UNCHANGED <<client, postsTable, creditPurchasesTable, now, posts_id_seq>>

\* a write is rejected by the database: the catch block rethrows, and what
\* the request has already written stays
createPost_DbError(rec) ==
  /\ rec.op = "createPost" /\ rec.pc \in {"insert_post", "update_credits"}
  /\ Step(rec, [rec EXCEPT !.pc = "done", !.error = ErrDatabase])
  /\ UNCHANGED <<client, usersTable, postsTable, creditPurchasesTable, now, posts_id_seq>>

\* --------------------------------------------------------- purchaseCredits
\* a JavaScript number that is the quotient of two integers
Quotient(n, d) == [num |-> n, den |-> d]

SameNumber(p, q) == p.num * q.den = q.num * p.den

RECURSIVE Pow10(_)
Pow10(k) == IF k = 0 THEN 1 ELSE 10 * Pow10(k - 1)

\* what a numeric(10, scale) column keeps of a non-negative number: the
\* count of units of 10^-scale nearest to it, halves rounded up
NumericColumn(q, scale) ==
  (2 * q.num * Pow10(scale) + q.den) \div (2 * q.den)

\* parseFloat of the text the column returns
parseFloat(units, scale) == Quotient(units, Pow10(scale))

\* the rate multiplied instead of divided
amountPaid_Multiplied(credits) == Quotient(credits * creditsPerDollar, 1)

\* input.credits / creditsPerDollar
amountPaid(credits) == Quotient(credits, creditsPerDollar)

\* the card number asked of every method
RequiredDetail_CardOnly(paymentMethod) == "card_number"

\* the detail field each payment method requires
RequiredDetail(paymentMethod) ==
  CASE paymentMethod = "credit_card" -> "card_number"
    [] paymentMethod = "paypal" -> "paypal_email"
    [] paymentMethod = "bank_transfer" -> "bank_account"
    [] OTHER -> "none"

\* the error for its lack
MissingDetailError(paymentMethod) ==
  CASE paymentMethod = "credit_card" -> ErrCardRequired
    [] paymentMethod = "paypal" -> ErrPaypalRequired
    [] paymentMethod = "bank_transfer" -> ErrBankRequired
    [] OTHER -> ErrInvalidMethod

MethodPrefix(paymentMethod) ==
  CASE paymentMethod = "credit_card" -> "cc"
    [] paymentMethod = "paypal" -> "pp"
    [] paymentMethod = "bank_transfer" -> "bt"
    [] OTHER -> "none"

\* the error simulatePayment throws, "none" when it returns
simulatePaymentError(paymentMethod, paymentDetails) ==
  IF paymentMethod \notin PaymentMethods THEN ErrInvalidMethod
  ELSE IF RequiredDetail(paymentMethod) \notin paymentDetails
    THEN MissingDetailError(paymentMethod)
    ELSE "none"

\* the transaction id simulatePayment returns: prefix_timestamp_randomId
simulatePayment(paymentMethod, timestamp, randomId) ==
  <<MethodPrefix(paymentMethod), timestamp, randomId>>

\* the request arrives and the user row is read; an absent user ends it.
\* Then the payment is simulated: Date.now() is read and the method and its
\* detail field are validated.
purchaseCredits_SelectUser(userId, paymentMethod, paymentDetails, timestamp) ==
  LET existingUsers == UsersById(userId)
      err == simulatePaymentError(paymentMethod, paymentDetails)
  IN
    /\ Arrive(IF Len(existingUsers) = 0
                THEN Fail("purchaseCredits", userId, ErrUserNotFound)
              ELSE IF err # "none"
                THEN [Fail("purchaseCredits", userId, err) EXCEPT
                        !.payment_method = paymentMethod,
                        !.payment_details = paymentDetails]
                ELSE [Fresh EXCEPT !.op = "purchaseCredits",
                                   !.pc = "insert_purchase",
                                   !.userId = userId,
                                   !.started = now, !.at = now,
                                   !.user_credits = existingUsers[1].credits,
                                   !.payment_method = paymentMethod,
                                   !.payment_details = paymentDetails,
                                   !.timestamp = timestamp])
    /\ UNCHANGED <<client, usersTable, postsTable, creditPurchasesTable, now, posts_id_seq>>

\* the purchase row is inserted; amount_paid is what the column keeps of
\* amountPaid.toString()
purchaseCredits_InsertPurchase(rec, credits, randomId) ==
  /\ rec.op = "purchaseCredits" /\ rec.pc = "insert_purchase"
  /\ creditPurchasesTable' = Append(creditPurchasesTable,
       [id |-> Len(creditPurchasesTable) + 1,
        user_id |-> rec.userId,
        credits_purchased |-> credits,
        amount_paid |-> NumericColumn(amountPaid(credits), NumericScale),
        payment_method |-> rec.payment_method,
        transaction_id |->
          simulatePayment(rec.payment_method, rec.timestamp, randomId),
        created_at |-> now])
  /\ Step(rec, [rec EXCEPT !.pc = "update_balance",
                           !.at = now,
                           !.credits = credits,
                           !.payment_method = "none",
                           !.payment_details = {},
                           !.timestamp = 0,
                           !.result = Len(creditPurchasesTable) + 1,
                           !.writes = @ + 1])
  /\ UNCHANGED <<client, usersTable, postsTable, now, posts_id_seq>>

\* the balance replaced by the credits bought
CreditedCredits_Replaced(user_credits, credits) == credits

\* the balance the purchase writes back
CreditedCredits(user_credits, credits) == user_credits + credits

\* the balance read at the start, plus the purchase, is written back; the
\* inserted row is returned with amount_paid parsed back to a number
purchaseCredits_UpdateBalance(rec) ==
  /\ rec.op = "purchaseCredits" /\ rec.pc = "update_balance"
  /\ usersTable' = SetCredits(rec.userId,
       CreditedCredits(rec.user_credits, rec.credits))
  /\ Step(rec, [rec EXCEPT
       !.pc = "done", !.at = now,
       !.amount_paid =
          parseFloat(creditPurchasesTable[rec.result].amount_paid, NumericScale),
       !.writes = @ + 1])
  /\ UNCHANGED <<client, postsTable, creditPurchasesTable, now, posts_id_seq>>

\* a write is rejected by the database: the catch block rethrows, and what
\* the request has already written stays
purchaseCredits_DbError(rec) ==
  /\ rec.op = "purchaseCredits"
  /\ rec.pc \in {"insert_purchase", "update_balance"}
  /\ Step(rec, [rec EXCEPT !.pc = "done", !.error = ErrDatabase,
                           !.payment_method = "none", !.payment_details = {},
                           !.timestamp = 0])
  /\ UNCHANGED <<client, usersTable, postsTable, creditPurchasesTable, now, posts_id_seq>>

\* the promise settles and the caller has its answer
Respond(rec) ==
  /\ rec.pc = "done"
  /\ req' = req (-) SetToBag({rec})
  /\ UNCHANGED <<client, usersTable, postsTable, creditPurchasesTable, now, posts_id_seq>>

\* ----------------------------------------------------------- specifications
Init ==
  /\ usersTable = <<>>
  /\ postsTable = <<>>
  /\ creditPurchasesTable = <<>>
  /\ req = EmptyBag
  /\ now = 0
  /\ posts_id_seq = 0
  /\ client = NoClient

\* room for one more row of users
UserRoom == Len(usersTable) < MaxUsers

\* room for one more row of users, and for the answer of a refused registration
RegisterRoom(email) ==
  /\ UserRoom
  /\ EmailTaken(email) => BagCardinality(req) < MaxRequests

\* room for one more request, and for the row it may insert
PostRoom ==
  /\ BagCardinality(req) < MaxRequests
  /\ Len(postsTable) + Pending("createPost", {"count_posts", "insert_post"}) < MaxPosts

PurchaseRoom ==
  /\ BagCardinality(req) < MaxRequests
  /\ Len(creditPurchasesTable) + Pending("purchaseCredits", {"insert_purchase"})
       < MaxPurchases

\* the steps a request takes once it has arrived, database errors apart
Continue ==
  \/ \E rec \in InFlight : createPost_CountPosts(rec)
  \/ \E rec \in InFlight : createPost_InsertPost(rec)
  \/ \E rec \in InFlight : createPost_UpdateCredits(rec)
  \/ \E rec \in InFlight, credits \in CreditInputs, randomId \in 1..NumRandom :
       purchaseCredits_InsertPurchase(rec, credits, randomId)
  \/ \E rec \in InFlight : purchaseCredits_UpdateBalance(rec)
  \/ \E rec \in InFlight : Respond(rec)

DbErrors ==
  \/ \E rec \in InFlight : createPost_DbError(rec)
  \/ \E rec \in InFlight : purchaseCredits_DbError(rec)

Arrivals ==
  \/ \E email \in Emails :
       RegisterRoom(email) /\ registerUser(email, AnyPassword, AnySalt, AnyPhone)
  \/ \E userId \in UserIds : PostRoom /\ createPost_SelectUser(userId)
  \/ \E userId \in UserIds, paymentMethod \in MethodInputs,
        paymentDetails \in DetailInputs, timestamp \in 0..MaxTime :
       PurchaseRoom /\
       purchaseCredits_SelectUser(userId, paymentMethod, paymentDetails, timestamp)

\* requests interleave and database writes can fail
Next == Arrivals \/ Continue \/ DbErrors

Spec == Init /\ [][Next]_vars

\* requests interleave; the database never fails
NextReliable == Arrivals \/ Continue

SpecReliable == Init /\ [][NextReliable]_vars

\* one request at a time
NextSeq == (req = EmptyBag /\ Arrivals) \/ Continue \/ DbErrors

SpecSeq == Init /\ [][NextSeq]_vars

\* the race of createPost requests on one balance: a user who has a post and
\* holds some credits sends RaceRequests requests, and nothing else happens
InitRace ==
  /\ \E c \in 0..MaxRaceCredits :
       usersTable = <<[id |-> 1, email |-> 1,
                       password_hash |-> passwordHash(AnyPassword, AnySalt),
                       phone_number |-> AnyPhone,
                       credits |-> c, initial_credits |-> c]>>
  /\ postsTable = <<[id |-> 1, user_id |-> 1, title |-> "title",
                     description |-> "text",
                     image_path |-> imagePath(0, "image.jpg"),
                     expires_at |-> setHours24(0),
                     created_at |-> 0, updated_at |-> 0, paid |-> FALSE]>>
  /\ creditPurchasesTable = <<>>
  /\ req = EmptyBag
  /\ now = 0
  /\ posts_id_seq = 0
  /\ client = NoClient

NextRace ==
  \/ BagCardinality(req) < RaceRequests /\ createPost_SelectUser(1)
  \/ \E rec \in InFlight : createPost_CountPosts(rec)
  \/ \E rec \in InFlight : createPost_InsertPost(rec)
  \/ \E rec \in InFlight : createPost_UpdateCredits(rec)

SpecRace == InitRace /\ [][NextRace]_vars

\* registrations under addresses that can repeat, and the purchases of the
\* registered users, sent one after the other
NextRegister ==
  \/ \E email \in 1..MaxRegistered :
       /\ req = EmptyBag /\ Len(usersTable) < MaxRegistered
       /\ registerUser(email, AnyPassword, AnySalt, AnyPhone)
  \/ \E userId \in 1..MaxRegistered, paymentMethod \in PaymentMethods :
       /\ req = EmptyBag /\ PurchaseRoom
       /\ purchaseCredits_SelectUser(userId, paymentMethod,
                                     {RequiredDetail(paymentMethod)}, 0)
  \/ \E rec \in InFlight, credits \in CreditInputs :
       purchaseCredits_InsertPurchase(rec, credits, 1)
  \/ \E rec \in InFlight : purchaseCredits_UpdateBalance(rec)
  \/ \E rec \in InFlight : Respond(rec)

SpecRegister == Init /\ [][NextRegister]_vars

\* the requests whose answer is waiting to be collected
Waiting == {rec \in InFlight : rec.pc = "done"}

\* a session of requests sent one after the other, each purchase being of
\* ScenarioCredits credits with valid payment details, with no database
\* error; the answers are kept, and the transaction ids, which nothing reads,
\* are all alike
ScenarioRoom ==
  /\ Waiting = InFlight
  /\ BagCardinality(req) < MaxScenarioRequests

NextScenario ==
  \/ \E email \in Emails :
       UserRoom /\ ScenarioRoom /\ registerUser(email, AnyPassword, AnySalt, AnyPhone)
  \/ \E userId \in UserIds :
       /\ ScenarioRoom /\ Len(postsTable) < MaxPosts
       /\ createPost_SelectUser(userId)
  \/ \E userId \in UserIds, paymentMethod \in PaymentMethods :
       /\ ScenarioRoom /\ Len(creditPurchasesTable) < MaxPurchases
       /\ purchaseCredits_SelectUser(userId, paymentMethod,
                                     {RequiredDetail(paymentMethod)}, 0)
  \/ \E rec \in InFlight : createPost_CountPosts(rec)
  \/ \E rec \in InFlight : createPost_InsertPost(rec)
  \/ \E rec \in InFlight : createPost_UpdateCredits(rec)
  \/ \E rec \in InFlight :
       purchaseCredits_InsertPurchase(rec, ScenarioCredits, 1)
  \/ \E rec \in InFlight : purchaseCredits_UpdateBalance(rec)

SpecScenario == Init /\ [][NextScenario]_vars

\* ==================================================== posts with a 24 h window
\* The variant of the server whose posts carry a price and a window of
\* visibility: createPost, getPosts, getPost, updatePost, repost, deletePost
\* over the single relation posts.  The clock counts ticks, TicksPerDay of
\* them to the day; a request is answered at most MaxLatency ticks after it
\* arrived.  The requests of this variant are served one after the other.

\* the window not added
expiresAt_Now(t) == t

\* new Date(now.getTime() + 24 * 60 * 60 * 1000)
expiresAt(t) == t + Hours(ExpiryHours)

Titles == {"t1", "t2"}
Contents == {"c1", "c2"}
\* input.price: 5 and 0.125
PriceInputs == {[num |-> 5, den |-> 1], [num |-> 1, den |-> 8]}
\* post ids a request can name: every id the serial can hand out and one more
PostIds == 1..(MaxFeePosts + 1)
\* an optional field of an input is the set of the values given for it
Optional(values) == {{}} \cup {{v} : v \in values}

ErrPostNotFound == "Post with id N not found"
ErrDeleteFailed == "Failed to delete post with id N"

\* the locals of a request of this variant that has just arrived
FreshCall ==
  [op |-> "none", pc |-> "start", id |-> 0, started |-> 0, now |-> 0,
   title |-> {}, content |-> {}, price |-> {},
   error |-> "none", error_id |-> 0, result |-> <<>>, at |-> 0]

\* db.select().from(postsTable).where(eq(postsTable.id, id))
PostsById(id) ==
  LET Test(p) == p.id = id IN SelectSeq(postsTable, Test)

\* the record a handler returns for a row: the row with price parsed back to
\* a number and is_active added
Returned(row, is_active) ==
  [id |-> row.id, title |-> row.title, content |-> row.content,
   price |-> parseFloat(row.price, NumericScale),
   posted_at |-> row.posted_at, expires_at |-> row.expires_at,
   created_at |-> row.created_at, updated_at |-> row.updated_at,
   is_active |-> is_active]

\* throw new Error(`Post with id ${input.id} not found`)
PostNotFound(rec) ==
  [rec EXCEPT !.pc = "done", !.error = ErrPostNotFound, !.error_id = rec.id]

\* the clock advances by one tick: no answer is waiting to be collected, and
\* no request gets older than MaxLatency
Tick ==
  /\ now < MaxClock
  /\ \A rec \in InFlight : rec.pc # "done" /\ now + 1 - rec.started <= MaxLatency
  /\ now' = now + 1
  /\ UNCHANGED <<client, usersTable, postsTable, creditPurchasesTable, req, posts_id_seq>>

\* ------------------------------------------------- createPost (24 h variant)
\* the clock is read and the insert is sent
feeCreatePost_Begin ==
  /\ Arrive([FreshCall EXCEPT !.op = "createPost", !.pc = "insert",
                              !.started = now, !.now = now])
  /\ UNCHANGED <<client, usersTable, postsTable, creditPurchasesTable, now, posts_id_seq>>

\* currentTime < post.expires_at
createPost_is_active(currentTime, expires_at) == currentTime < expires_at

\* the row is inserted with the four timestamps of the request; the caller
\* gets it back with is_active computed against the clock read anew
feeCreatePost_Insert(rec, title, content, price) ==
  /\ rec.op = "createPost" /\ rec.pc = "insert"
  /\ LET row == [id |-> posts_id_seq + 1, title |-> title, content |-> content,
                 price |-> NumericColumn(price, NumericScale),
                 posted_at |-> rec.now, expires_at |-> expiresAt(rec.now),
                 created_at |-> rec.now, updated_at |-> rec.now]
     IN /\ postsTable' = Append(postsTable, row)
        /\ posts_id_seq' = posts_id_seq + 1
        /\ Step(rec, [rec EXCEPT
             !.pc = "done", !.id = row.id, !.at = now,
             !.title = {title}, !.content = {content}, !.price = {price},
             !.result = <<Returned(row, createPost_is_active(now, row.expires_at))>>])
  /\ UNCHANGED <<client, usersTable, creditPurchasesTable, now>>

\* ------------------------------------------------------------------ getPosts
\* the rows ordered by created_at instead
OrderByPostedAtDesc_ByCreatedAt(rows) ==
  {s \in {[i \in 1..Len(rows) |-> rows[f[i]]] : f \in Permutations(1..Len(rows))} :
     \A i, j \in 1..Len(rows) : i < j => s[i].created_at >= s[j].created_at}

\* the orders in which ORDER BY posted_at DESC can return the rows
OrderByPostedAtDesc(rows) ==
  {s \in {[i \in 1..Len(rows) |-> rows[f[i]]] : f \in Permutations(1..Len(rows))} :
     \A i, j \in 1..Len(rows) : i < j => s[i].posted_at >= s[j].posted_at}

\* currentTime < post.expires_at
getPosts_is_active(currentTime, expires_at) == currentTime < expires_at

\* every row, latest posted first, each with is_active
getPosts ==
  /\ \E results \in OrderByPostedAtDesc(postsTable) :
       Arrive([FreshCall EXCEPT
         !.op = "getPosts", !.pc = "done", !.started = now, !.at = now,
         !.result = [i \in 1..Len(results) |->
            Returned(results[i], getPosts_is_active(now, results[i].expires_at))]])
  /\ UNCHANGED <<client, usersTable, postsTable, creditPurchasesTable, now, posts_id_seq>>

\* ------------------------------------------------------------------- getPost
\* currentTime <= post.expires_at
getPost_is_active(currentTime, expires_at) == currentTime <= expires_at

\* the row of the id with is_active, or null (no result and no error)
getPost(id) ==
  LET results == PostsById(id)
      call == [FreshCall EXCEPT !.op = "getPost", !.pc = "done", !.id = id,
                                !.started = now, !.at = now]
  IN
    /\ Arrive(IF Len(results) = 0 THEN call
              ELSE [call EXCEPT !.result =
                <<Returned(results[1],
                           getPost_is_active(now, results[1].expires_at))>>])
    /\ UNCHANGED <<client, usersTable, postsTable, creditPurchasesTable, now, posts_id_seq>>

\* ---------------------------------------------------------------- updatePost
\* updateData is built from the fields the input provides and the clock
updatePost_Begin ==
  /\ Arrive([FreshCall EXCEPT !.op = "updatePost", !.pc = "update",
                              !.started = now, !.now = now])
  /\ UNCHANGED <<client, usersTable, postsTable, creditPurchasesTable, now, posts_id_seq>>

\* the update starting a new window as well
updateData_Reposting(row, title, content, price, updated_at) ==
  [row EXCEPT
     !.updated_at = updated_at,
     !.posted_at = updated_at,
     !.expires_at = expiresAt(updated_at),
     !.title = IF title = {} THEN @ ELSE CHOOSE v \in title : TRUE,
     !.content = IF content = {} THEN @ ELSE CHOOSE v \in content : TRUE,
     !.price = IF price = {} THEN @
               ELSE NumericColumn(CHOOSE v \in price : TRUE, NumericScale)]

\* the row after SET updateData: updated_at always, and each of title,
\* content and price when the input provides it
updateData(row, title, content, price, updated_at) ==
  [row EXCEPT
     !.updated_at = updated_at,
     !.title = IF title = {} THEN @ ELSE CHOOSE v \in title : TRUE,
     !.content = IF content = {} THEN @ ELSE CHOOSE v \in content : TRUE,
     !.price = IF price = {} THEN @
               ELSE NumericColumn(CHOOSE v \in price : TRUE, NumericScale)]

\* post.expires_at > now
updatePost_is_active(currentTime, expires_at) == expires_at > currentTime

\* db.update(postsTable).set(updateData).where(eq(postsTable.id, input.id))
\* .returning(); no row returned means the id is absent
updatePost_Update(rec, id, title, content, price) ==
  /\ rec.op = "updatePost" /\ rec.pc = "update"
  /\ postsTable' = [i \in 1..Len(postsTable) |->
       IF postsTable[i].id = id
         THEN updateData(postsTable[i], title, content, price, rec.now)
         ELSE postsTable[i]]
  /\ LET result == PostsById(id)
         call == [rec EXCEPT !.id = id, !.title = title, !.content = content,
                             !.price = price]
     IN
       Step(rec,
         IF Len(result) = 0 THEN PostNotFound(call)
         ELSE LET post == updateData(result[1], title, content, price, rec.now)
              IN [call EXCEPT !.pc = "done", !.at = now,
                    !.result = <<Returned(post,
                                   updatePost_is_active(now, post.expires_at))>>])
  /\ UNCHANGED <<client, usersTable, creditPurchasesTable, now, posts_id_seq>>

\* -------------------------------------------------------------------- repost
\* the clock is read and the update is sent
repost_Begin ==
  /\ Arrive([FreshCall EXCEPT !.op = "repost", !.pc = "update",
                              !.started = now, !.now = now])
  /\ UNCHANGED <<client, usersTable, postsTable, creditPurchasesTable, now, posts_id_seq>>

\* expires_at left as it was
repostData_StaleExpiry(row, t) ==
  [row EXCEPT !.posted_at = t, !.updated_at = t]

\* created_at set with the other timestamps
repostData_Recreated(row, t) ==
  [row EXCEPT !.posted_at = t, !.expires_at = expiresAt(t), !.updated_at = t,
              !.created_at = t]

\* the row after SET posted_at = now, expires_at = expiresAt, updated_at = now
repostData(row, t) ==
  [row EXCEPT !.posted_at = t, !.expires_at = expiresAt(t), !.updated_at = t]

\* post.expires_at > new Date()
repost_is_active(currentTime, expires_at) == expires_at > currentTime

\* db.update(postsTable).set({...}).where(eq(postsTable.id, input.id))
\* .returning(); no row returned means the id is absent
repost_Update(rec, id) ==
  /\ rec.op = "repost" /\ rec.pc = "update"
  /\ postsTable' = [i \in 1..Len(postsTable) |->
       IF postsTable[i].id = id
         THEN repostData(postsTable[i], rec.now)
         ELSE postsTable[i]]
  /\ LET result == PostsById(id)
         call == [rec EXCEPT !.id = id]
     IN
       Step(rec,
         IF Len(result) = 0 THEN PostNotFound(call)
         ELSE LET post == repostData(result[1], rec.now)
              IN [call EXCEPT !.pc = "done", !.at = now,
                    !.result = <<Returned(post,
                                   repost_is_active(now, post.expires_at))>>])
  /\ UNCHANGED <<client, usersTable, creditPurchasesTable, now, posts_id_seq>>

\* ---------------------------------------------------------------- deletePost
\* the row is looked up first; an absent id ends the request
deletePost_Select(id) ==
  LET existingPost == PostsById(id)
      call == [FreshCall EXCEPT !.op = "deletePost", !.pc = "delete", !.id = id,
                                !.started = now]
  IN
    /\ Arrive(IF Len(existingPost) = 0 THEN PostNotFound(call) ELSE call)
    /\ UNCHANGED <<client, usersTable, postsTable, creditPurchasesTable, now, posts_id_seq>>

\* the WHERE clause left out
deleteWhereId_All(rows, id) == <<>>

\* the rows DELETE ... WHERE id = input.id leaves
deleteWhereId(rows, id) ==
  LET Keep(p) == p.id # id IN SelectSeq(rows, Keep)

\* the row is deleted; when the delete returns no row the request fails
deletePost_Delete(rec) ==
  /\ rec.op = "deletePost" /\ rec.pc = "delete"
  /\ postsTable' = deleteWhereId(postsTable, rec.id)
  /\ Step(rec,
       IF Len(PostsById(rec.id)) = 0
         THEN [rec EXCEPT !.pc = "done", !.error = ErrDeleteFailed,
                          !.error_id = rec.id]
         ELSE [rec EXCEPT !.pc = "done", !.at = now])
  /\ UNCHANGED <<client, usersTable, creditPurchasesTable, now, posts_id_seq>>

\* a write of this variant is rejected by the database: the catch block
\* rethrows and nothing is written
feeDbError(rec) ==
  /\ rec.op \in {"createPost", "updatePost", "repost", "deletePost"}
  /\ rec.pc \in {"insert", "update", "delete"}
  /\ Step(rec, [rec EXCEPT !.pc = "done", !.error = ErrDatabase])
  /\ UNCHANGED <<client, usersTable, postsTable, creditPurchasesTable, now, posts_id_seq>>

\* ------------------------------------------ specifications, 24 h variant
FeeBegins ==
  \/ /\ posts_id_seq + Pending("createPost", {"insert"}) < MaxFeePosts
     /\ feeCreatePost_Begin
  \/ updatePost_Begin
  \/ repost_Begin
  \/ \E id \in PostIds : deletePost_Select(id)
  \/ \E id \in PostIds : getPost(id)
  \/ getPosts

FeeContinue ==
  \/ \E rec \in InFlight, title \in Titles, content \in Contents,
        price \in PriceInputs :
       feeCreatePost_Insert(rec, title, content, price)
  \/ \E rec \in InFlight, id \in PostIds, title \in Optional(Titles),
        content \in Optional(Contents), price \in Optional(PriceInputs) :
       updatePost_Update(rec, id, title, content, price)
  \/ \E rec \in InFlight, id \in PostIds : repost_Update(rec, id)
  \/ \E rec \in InFlight : deletePost_Delete(rec)
  \/ \E rec \in InFlight : feeDbError(rec)
  \/ \E rec \in InFlight : Respond(rec)

\* one request at a time
NextFeeSeq ==
  \/ req = EmptyBag /\ FeeBegins
  \/ FeeContinue
  \/ Tick

SpecFeeSeq == Init /\ [][NextFeeSeq]_vars

\* the clock advances by one tick while answers are kept: no request being
\* served gets older than MaxLatency
TickKept ==
  /\ now < MaxFeeRaceClock
  /\ \A rec \in InFlight : rec.pc # "done" => now + 1 - rec.started <= MaxLatency
  /\ now' = now + 1
  /\ UNCHANGED <<client, usersTable, postsTable, creditPurchasesTable, req, posts_id_seq>>

FeeRaceRoom == BagCardinality(req) < MaxFeeRaceRequests

\* a few requests that write, their steps interleaved; the answers are kept.
\* Every post is created with the same title, content and price, and an
\* update changes at most the title.
NextFeeRace ==
  \/ /\ FeeRaceRoom
     /\ posts_id_seq + Pending("createPost", {"insert"}) < MaxFeePosts
     /\ feeCreatePost_Begin
  \/ FeeRaceRoom /\ updatePost_Begin
  \/ FeeRaceRoom /\ repost_Begin
  \/ \E id \in PostIds : FeeRaceRoom /\ deletePost_Select(id)
  \/ \E rec \in InFlight :
       feeCreatePost_Insert(rec, "t1", "c1", [num |-> 5, den |-> 1])
  \/ \E rec \in InFlight, id \in PostIds, title \in Optional({"t2"}) :
       updatePost_Update(rec, id, title, {}, {})
  \/ \E rec \in InFlight, id \in PostIds : repost_Update(rec, id)
  \/ \E rec \in InFlight : deletePost_Delete(rec)
  \/ TickKept

SpecFeeRace == Init /\ [][NextFeeRace]_vars

\* ============================================================ getPublicPosts
\* The public listing of the credits variant.  The handler joins posts with
\* users, so the rows here carry the columns the listing reads or must not
\* show; the database starts as registrations and posts have left it.

Phones == {"+1", "+2"}
PasswordHashes == {"salt1:hash1", "salt2:hash2"}

\* the user rows: one per id, with emails that differ
PublicUsers ==
  {[i \in 1..MaxPublicUsers |->
      [id |-> i, email |-> i, password_hash |-> "salt1:hash1",
       phone_number |-> phone[i], credits |-> InitialCredits]] :
     phone \in [1..MaxPublicUsers -> Phones]}

\* a post row, as createPost of the credits variant inserts it at time t
PublicPostRow(id, userId, t) ==
  [id |-> id, user_id |-> userId, title |-> "title", description |-> "text",
   image_path |-> "/uploads/image", expires_at |-> t + Hours(ExpiryHours),
   created_at |-> t, updated_at |-> t]

\* the post tables: ids in the order of insertion, times that do not decrease
PublicPosts ==
  UNION {
    {posts \in [1..n -> {PublicPostRow(id, userId, t) :
                           id \in 1..n, userId \in 1..MaxPublicUsers,
                           t \in 0..MaxCreatedAt}] :
       /\ \A i \in 1..n : posts[i].id = i
       /\ \A i, j \in 1..n : i < j => posts[i].created_at <= posts[j].created_at} :
    n \in 0..MaxPublicPosts}

InitPublic ==
  /\ usersTable \in PublicUsers
  /\ postsTable \in PublicPosts
  /\ creditPurchasesTable = <<>>
  /\ req = EmptyBag
  /\ now = 0
  /\ posts_id_seq = Len(postsTable)
  /\ client = NoClient

\* expires_at >= current time
NotExpired_Inclusive(expires_at, currentTime) == expires_at >= currentTime

\* 1. posts that haven't expired (expires_at > current time)
NotExpired(expires_at, currentTime) == expires_at > currentTime

\* the whole user row attached to the post
PublicPost_Joined(post, user) ==
  [id |-> post.id, title |-> post.title, description |-> post.description,
   image_path |-> post.image_path, phone_number |-> user.phone_number,
   created_at |-> post.created_at, expires_at |-> post.expires_at,
   user_id |-> user.id, email |-> user.email, credits |-> user.credits]

\* 4. only public-safe data: the fields of publicPostSchema
PublicPost(post, user) ==
  [id |-> post.id, title |-> post.title, description |-> post.description,
   image_path |-> post.image_path, phone_number |-> user.phone_number,
   created_at |-> post.created_at, expires_at |-> post.expires_at]

\* 2. join with users to get phone numbers
JoinUsers(posts, users) ==
  [i \in 1..Len(posts) |->
     PublicPost(posts[i],
                users[CHOOSE k \in 1..Len(users) : users[k].id = posts[i].user_id])]

\* 3. order by creation date, newest first: the orders the query can return
OrderByCreatedAtDesc(rows) ==
  {s \in {[i \in 1..Len(rows) |-> rows[f[i]]] : f \in Permutations(1..Len(rows))} :
     \A i, j \in 1..Len(rows) : i < j => s[i].created_at >= s[j].created_at}

\* what getPublicPosts can return from a database at a time
PublicListing(posts, users, currentTime) ==
  LET Active(p) == NotExpired(p.expires_at, currentTime)
  IN OrderByCreatedAtDesc(JoinUsers(SelectSeq(posts, Active), users))

getPublicPosts ==
  /\ \E results \in PublicListing(postsTable, usersTable, now) :
       Arrive([FreshCall EXCEPT !.op = "getPublicPosts", !.pc = "done",
                                !.started = now, !.at = now, !.result = results])
  /\ UNCHANGED <<client, usersTable, postsTable, creditPurchasesTable, now, posts_id_seq>>

NextPublic ==
  \/ req = EmptyBag /\ getPublicPosts
  \/ \E rec \in InFlight : Respond(rec)
  \/ Tick

SpecPublic == InitPublic /\ [][NextPublic]_vars

\* ========================================================= account handlers
\* loginUser, getUserProfile, getUserPosts and getCreditHistory of the credits
\* variant, each one database read.

ErrInvalidLogin == "Invalid email or password"
ErrPasswordFormat == "Invalid password format"

\* addresses that differ only in the case of a letter
AccountEmails == {"ann@example.com", "Ann@example.com"}

\* input.credits of the purchases made between the account requests
AccountCredits == 4

\* user ids a request can name: every row that can exist and one id that never does
AccountIds == 1..(MaxAccounts + 1)

\* db.select().from(usersTable).where(eq(usersTable.email, input.email))
UsersByEmail(email) ==
  LET Test(u) == u.email = email IN SelectSeq(usersTable, Test)

\* Buffer.from(text, 'hex')
BufferFromHex(part) == [length |-> part.bytes, data |-> part]

\* the lengths compared and nothing else
comparePasswords_LengthOnly(provided, stored, salt) ==
  BufferFromHex(stored).length = BufferFromHex(hashPassword(provided, salt)).length

\* buffers of different lengths differ; timingSafeEqual decides the others
comparePasswords(provided, stored, salt) ==
  LET providedHash == hashPassword(provided, salt)
      storedBuffer == BufferFromHex(stored)
      providedBuffer == BufferFromHex(providedHash)
  IN IF storedBuffer.length # providedBuffer.length
       THEN FALSE
       ELSE storedBuffer.data = providedBuffer.data

\* const [storedHash, salt] = user.password_hash.split(':'), and the test
\* !storedHash || !salt
PasswordFormatValid(password_hash) == Len(password_hash) >= 2

\* what loginUser answers from the rows the select returned
loginUser_Answer(users, email, password) ==
  LET call == [Fresh EXCEPT !.op = "loginUser", !.pc = "done", !.email = email,
                            !.password = password, !.started = now, !.at = now]
  IN IF Len(users) = 0
       THEN [call EXCEPT !.error = ErrInvalidLogin]
     ELSE IF ~PasswordFormatValid(users[1].password_hash)
       THEN [call EXCEPT !.error = ErrPasswordFormat]
     ELSE IF ~comparePasswords(password, users[1].password_hash[1],
                               users[1].password_hash[2])
       THEN [call EXCEPT !.error = ErrInvalidLogin]
       ELSE [call EXCEPT !.userId = users[1].id,
                         !.result = [user_id |-> users[1].id,
                                     email |-> users[1].email]]

loginUser(email, password) ==
  /\ Arrive(loginUser_Answer(UsersByEmail(email), email, password))
  /\ UNCHANGED <<client, usersTable, postsTable, creditPurchasesTable, now, posts_id_seq>>

\* the credits of the registration returned
UserProfile_Registered(user) ==
  [id |-> user.id, email |-> user.email, password_hash |-> user.password_hash,
   phone_number |-> user.phone_number, credits |-> user.initial_credits]

\* the fields of the user row getUserProfile returns
UserProfile(user) ==
  [id |-> user.id, email |-> user.email, password_hash |-> user.password_hash,
   phone_number |-> user.phone_number, credits |-> user.credits]

getUserProfile(userId) ==
  LET result == UsersById(userId) IN
    /\ Arrive(IF Len(result) = 0
                THEN Fail("getUserProfile", userId, ErrUserNotFound)
                ELSE [Fresh EXCEPT !.op = "getUserProfile", !.pc = "done",
                                   !.userId = userId,
                                   !.started = now, !.at = now,
                                   !.result = UserProfile(result[1])])
    /\ UNCHANGED <<client, usersTable, postsTable, creditPurchasesTable, now, posts_id_seq>>

\* the fields of a post row getUserPosts returns
UserPost(post) ==
  [id |-> post.id, user_id |-> post.user_id, title |-> post.title,
   description |-> post.description, image_path |-> post.image_path,
   expires_at |-> post.expires_at, created_at |-> post.created_at,
   updated_at |-> post.updated_at]

\* the rows of every user returned
UserPostsListing_Everyone(posts, userId) ==
  OrderByCreatedAtDesc([i \in 1..Len(posts) |-> UserPost(posts[i])])

\* where user_id = userId, order by created_at desc: the orders the query
\* can return
UserPostsListing(posts, userId) ==
  LET Owned(p) == p.user_id = userId
      rows == SelectSeq(posts, Owned)
  IN OrderByCreatedAtDesc([i \in 1..Len(rows) |-> UserPost(rows[i])])

getUserPosts(userId) ==
  /\ \E results \in UserPostsListing(postsTable, userId) :
       Arrive([Fresh EXCEPT !.op = "getUserPosts", !.pc = "done",
                            !.userId = userId, !.started = now, !.at = now,
                            !.result = results])
  /\ UNCHANGED <<client, usersTable, postsTable, creditPurchasesTable, now, posts_id_seq>>

\* a purchase row as getCreditHistory returns it: amount_paid parsed to a number
HistoryEntry(purchase) ==
  [purchase EXCEPT !.amount_paid = parseFloat(purchase.amount_paid, NumericScale)]

\* where user_id = userId, order by created_at desc: the orders the query
\* can return
CreditHistoryListing(purchases, userId) ==
  LET Owned(p) == p.user_id = userId
      rows == SelectSeq(purchases, Owned)
  IN OrderByCreatedAtDesc([i \in 1..Len(rows) |-> HistoryEntry(rows[i])])

getCreditHistory(userId) ==
  /\ \E results \in CreditHistoryListing(creditPurchasesTable, userId) :
       Arrive([Fresh EXCEPT !.op = "getCreditHistory", !.pc = "done",
                            !.userId = userId, !.started = now, !.at = now,
                            !.result = results])
  /\ UNCHANGED <<client, usersTable, postsTable, creditPurchasesTable, now, posts_id_seq>>

\* the users table before the first request: empty, or holding one row whose
\* credential is in the format loginUser reads, or one whose credential has
\* no colon, as the tests of loginUser insert them
SeedUsers ==
  {<<>>} \cup
  {<<[id |-> 1, email |-> "ann@example.com", password_hash |-> password_hash,
      phone_number |-> AnyPhone,
      credits |-> InitialCredits, initial_credits |-> InitialCredits]>> :
     password_hash \in {createTestUser_password_hash(AnyPassword, generateSalt(1)),
                        <<generateSalt(1)>>}}

InitAccount ==
  /\ usersTable \in SeedUsers
  /\ postsTable = <<>>
  /\ creditPurchasesTable = <<>>
  /\ req = EmptyBag
  /\ now = 0
  /\ posts_id_seq = 0
  /\ client = NoClient

\* the requests of the account handlers, of createPost and of purchaseCredits,
\* sent one after the other while the clock runs; the purchases are by card
\* and their transaction ids, which nothing reads, are all alike
NextAccount ==
  \/ \E email \in AccountEmails :
       /\ req = EmptyBag /\ Len(usersTable) < MaxAccounts
       /\ registerUser(email, AnyPassword, AnySalt, AnyPhone)
  \/ \E email \in AccountEmails, password \in Passwords :
       req = EmptyBag /\ loginUser(email, password)
  \/ \E userId \in AccountIds : req = EmptyBag /\ getUserProfile(userId)
  \/ \E userId \in AccountIds : req = EmptyBag /\ getUserPosts(userId)
  \/ \E userId \in AccountIds : req = EmptyBag /\ getCreditHistory(userId)
  \/ req = EmptyBag /\ getPublicPosts
  \/ \E userId \in AccountIds :
       /\ req = EmptyBag /\ Len(postsTable) < MaxPosts
       /\ createPost_SelectUser(userId)
  \/ \E userId \in AccountIds :
       /\ req = EmptyBag /\ Len(creditPurchasesTable) < MaxPurchases
       /\ purchaseCredits_SelectUser(userId, "credit_card", {"card_number"}, 0)
  \/ \E rec \in InFlight : createPost_CountPosts(rec)
  \/ \E rec \in InFlight : createPost_InsertPost(rec)
  \/ \E rec \in InFlight : createPost_UpdateCredits(rec)
  \/ \E rec \in InFlight :
       purchaseCredits_InsertPurchase(rec, AccountCredits, 1)
  \/ \E rec \in InFlight : purchaseCredits_UpdateBalance(rec)
  \/ \E rec \in InFlight : Respond(rec)
  \/ Tick

SpecAccount == InitAccount /\ [][NextAccount]_vars

\* registrations under any password and any salt, and logins, sent one after
\* the other
NextLogin ==
  \/ \E email \in AccountEmails, password \in Passwords, k \in 1..NumRandom,
        phone_number \in PhoneNumbers :
       /\ req = EmptyBag /\ Len(usersTable) < MaxAccounts
       /\ registerUser(email, password, randomBytesHex(k), phone_number)
  \/ \E email \in AccountEmails, password \in Passwords :
       req = EmptyBag /\ loginUser(email, password)
  \/ \E rec \in InFlight : Respond(rec)

SpecLogin == InitAccount /\ [][NextLogin]_vars

\* ================================================================ the client
\* The browser application: App holds the logged-in user with the credits it
\* shows, CreditPurchase sends a purchase and tells App the new balance.
\* clicks counts the clicks on the purchase button.
\* call holds the locals of handlePurchase: pc is "sending" from the click
\* to the settling of trpc.purchaseCredits.mutate, "settled" after it until
\* the next event of the application; accepted tells how it settled.

\* credits and bonus of the packages on sale
creditPackages ==
  {[credits |-> 5, bonus |-> 0], [credits |-> 25, bonus |-> 5],
   [credits |-> 50, bonus |-> 15], [credits |-> 100, bonus |-> 35]}

\* selectedPackage.credits + selectedPackage.bonus
totalCredits(selectedPackage) == selectedPackage.credits + selectedPackage.bonus

\* setUser(prev => ({ ...prev, credits: newCredits }))
handleCreditsUpdated(newCredits) == [client EXCEPT !.credits = newCredits]

\* the click on the purchase button, enabled while no purchase is loading:
\* purchaseData is built from the selected package
handlePurchase_Click(selectedPackage) ==
  /\ client.user_id # 0 /\ client.call.pc # "sending"
  /\ client' = [client EXCEPT
       !.clicks = @ + 1,
       !.call = [pc |-> "sending", currentCredits |-> client.credits,
                 credits |-> selectedPackage.credits,
                 bonus |-> selectedPackage.bonus, accepted |-> FALSE]]
  /\ UNCHANGED <<usersTable, postsTable, creditPurchasesTable, req, now, posts_id_seq>>

\* the mutation settles.  try: onCreditsUpdated(currentCredits + totalCredits);
\* catch: onCreditsUpdated(currentCredits + totalCredits) as well
handlePurchase_Settle(rec) ==
  /\ client.call.pc = "sending"
  /\ rec.op = "purchaseCredits" /\ rec.pc = "done"
  /\ req' = req (-) SetToBag({rec})
  /\ client' =
       [handleCreditsUpdated(client.call.currentCredits + totalCredits(client.call))
          EXCEPT !.call.pc = "settled", !.call.accepted = (rec.error = "none")]
  /\ UNCHANGED <<usersTable, postsTable, creditPurchasesTable, now, posts_id_seq>>

\* loadUserProfile: setUser(profile) with the row getUserProfile returns
loadUserProfile ==
  /\ client.user_id # 0 /\ client.call.pc # "sending"
  /\ Len(UsersById(client.user_id)) > 0
  /\ client' = [client EXCEPT
       !.credits = UserProfile(UsersById(client.user_id)[1]).credits,
       !.call.pc = "idle"]
  /\ UNCHANGED <<usersTable, postsTable, creditPurchasesTable, req, now, posts_id_seq>>

\* a registered user has logged in and the profile has been loaded
InitClient ==
  /\ usersTable = <<[id |-> 1, email |-> 1,
                     password_hash |-> passwordHash(AnyPassword, AnySalt),
                     phone_number |-> AnyPhone,
                     credits |-> InitialCredits,
                     initial_credits |-> InitialCredits]>>
  /\ postsTable = <<>>
  /\ creditPurchasesTable = <<>>
  /\ req = EmptyBag
  /\ now = 0
  /\ posts_id_seq = 0
  /\ client = [NoClient EXCEPT !.user_id = 1, !.credits = InitialCredits]

\* the purchases of one user through the application; a write of the server
\* can fail
NextClient ==
  \/ \E selectedPackage \in creditPackages :
       /\ client.clicks < MaxClicks
       /\ handlePurchase_Click(selectedPackage)
  \/ \E paymentMethod \in PaymentMethods :
       /\ client.call.pc = "sending" /\ req = EmptyBag
       /\ purchaseCredits_SelectUser(client.user_id, paymentMethod,
                                     {RequiredDetail(paymentMethod)}, 0)
  \/ \E rec \in InFlight :
       purchaseCredits_InsertPurchase(rec, client.call.credits, 1)
  \/ \E rec \in InFlight : purchaseCredits_UpdateBalance(rec)
  \/ \E rec \in InFlight : purchaseCredits_DbError(rec)
  \/ \E rec \in InFlight : handlePurchase_Settle(rec)
  \/ loadUserProfile

SpecClient == InitClient /\ [][NextClient]_vars

\* ------------------------------------------------------------------ claims
Answered(op) == {rec \in InFlight : rec.op = op /\ rec.pc = "done"}

Succeeded(op) == {rec \in Answered(op) : rec.error = "none"}

UserExists(userId) == Len(UsersById(userId)) > 0

Balance(userId) == UsersById(userId)[1].credits

IsPaid(p) == p.paid

PaidPostsOfUser(userId) == SelectSeq(PostsOfUser(userId), IsPaid)

RECURSIVE SumCreditsPurchased(_)
SumCreditsPurchased(rows) ==
  IF rows = <<>> THEN 0
  ELSE Head(rows).credits_purchased + SumCreditsPurchased(Tail(rows))

RECURSIVE Copies(_)
Copies(recs) ==
  IF recs = {} THEN 0
  ELSE LET rec == CHOOSE x \in recs : TRUE
       IN CopiesIn(rec, req) + Copies(recs \ {rec})

\* C1: under any interleaving of registerUser, createPost and purchaseCredits,
\* database errors included, every user's credits is an integer >= 0.
C1_CreditsNeverNegative ==
  \A i \in 1..Len(usersTable) : usersTable[i].credits \in Nat

\* a user brought to a balance of 0 by a paid post, after a purchase
C1_Witness ==
  \E i \in 1..Len(usersTable) :
    /\ usersTable[i].credits = 0
    /\ Len(PaidPostsOfUser(usersTable[i].id)) > 0
    /\ Len(PurchasesOfUser(usersTable[i].id)) > 0

\* C2: a createPost served on its own, for an existing user and with no
\* database error: with no earlier post of the owner it succeeds and leaves
\* the balance as it was; with an earlier post it succeeds exactly when the
\* balance is at least 5, a success lowers the balance by exactly 5 and a
\* refusal leaves it as it was.
C2_FirstFreeThenFive ==
  \A rec \in Answered("createPost") :
    rec.error \notin {ErrUserNotFound, ErrDatabase} =>
      LET ok == rec.error = "none"
          postsAfter == Len(PostsOfUser(rec.userId))
          postsBefore == IF ok THEN postsAfter - 1 ELSE postsAfter
          before == IF ok THEN rec.user_credits ELSE rec.available
          after == Balance(rec.userId)
      IN /\ postsBefore = 0 => ok /\ after = before
         /\ postsBefore > 0 =>
              /\ ok <=> before >= 5
              /\ ok => after = before - 5
              /\ ~ok => after = before

\* a second post created with a balance of exactly 5, which goes to 0
C2_Witness ==
  \E rec \in Succeeded("createPost") :
    /\ rec.user_credits = 5
    /\ Len(PostsOfUser(rec.userId)) = 2
    /\ Balance(rec.userId) = 0

\* C3: a createPost that fails, at whatever step, has persisted no post row
\* and changed no balance.
C3_CreatePostAtomic ==
  \A rec \in Answered("createPost") : rec.error # "none" => rec.writes = 0

\* C4: when a user who has a post and holds c credits sends two createPost
\* requests, however their steps interleave, at most c \div 5 of them succeed
\* and the final balance is c less 5 for each success.
C4_RaceSerialized ==
  Copies(Answered("createPost")) = RaceRequests =>
    LET c == usersTable[1].initial_credits
        successes == Copies(Succeeded("createPost"))
    IN /\ successes <= c \div 5
       /\ usersTable[1].credits = c - 5 * successes

\* C5: a purchaseCredits that fails has persisted no purchase row: a row
\* exists only together with its increment of the balance.
C5_PurchaseAtomic ==
  \A rec \in Answered("purchaseCredits") : rec.error # "none" => rec.result = 0

\* C6: with no request in flight and no database error ever, every user's
\* balance is the initial balance plus the credits of the user's purchase
\* rows less 5 for each paid post of the user.
C6_LedgerBalances ==
  req = EmptyBag =>
    \A i \in 1..Len(usersTable) :
      usersTable[i].credits =
        usersTable[i].initial_credits
          + SumCreditsPurchased(PurchasesOfUser(usersTable[i].id))
          - 5 * Len(PaidPostsOfUser(usersTable[i].id))

\* C7: every purchase row stores an amount of exactly 20 cents per credit,
\* and the record a purchase returns carries an amount equal to credits / 5.
C7_AmountExact ==
  /\ \A i \in 1..Len(creditPurchasesTable) :
       creditPurchasesTable[i].amount_paid
         = 20 * creditPurchasesTable[i].credits_purchased
  /\ \A rec \in Succeeded("purchaseCredits") :
       /\ rec.amount_paid.num * 5 = rec.credits * rec.amount_paid.den
       /\ rec.credits = creditPurchasesTable[rec.result].credits_purchased

\* a purchase of 1 credit, stored as 0.20 and returned as 0.2
C7_Witness ==
  \E rec \in Succeeded("purchaseCredits") :
    /\ rec.credits = 1
    /\ creditPurchasesTable[rec.result].amount_paid = 20
    /\ SameNumber(rec.amount_paid, Quotient(1, 5))

\* C8: no two purchase rows carry the same transaction_id.
C8_TransactionIdUnique ==
  \A i, j \in 1..Len(creditPurchasesTable) :
    i # j =>
      creditPurchasesTable[i].transaction_id # creditPurchasesTable[j].transaction_id

PurchaseRejections ==
  {ErrUserNotFound, ErrInvalidMethod, ErrCardRequired, ErrPaypalRequired,
   ErrBankRequired}

\* C9: a purchaseCredits refused for an absent user, a payment method outside
\* the enum or a missing detail field carries the error of exactly that
\* cause and has written nothing; a request with none of these causes is not
\* refused.
C9_PurchaseRejected ==
  /\ \A rec \in Answered("purchaseCredits") :
       rec.error \in PurchaseRejections =>
         /\ rec.writes = 0
         /\ rec.result = 0
         /\ rec.error = ErrUserNotFound <=> ~UserExists(rec.userId)
         /\ rec.error = ErrInvalidMethod =>
              rec.payment_method \notin {"credit_card", "paypal", "bank_transfer"}
         /\ rec.error = ErrCardRequired =>
              rec.payment_method = "credit_card"
                /\ "card_number" \notin rec.payment_details
         /\ rec.error = ErrPaypalRequired =>
              rec.payment_method = "paypal"
                /\ "paypal_email" \notin rec.payment_details
         /\ rec.error = ErrBankRequired =>
              rec.payment_method = "bank_transfer"
                /\ "bank_account" \notin rec.payment_details
  /\ \A rec \in InFlight :
       rec.op = "purchaseCredits" /\ rec.pc = "insert_purchase" =>
         /\ UserExists(rec.userId)
         /\ rec.payment_method = "credit_card" => "card_number" \in rec.payment_details
         /\ rec.payment_method = "paypal" => "paypal_email" \in rec.payment_details
         /\ rec.payment_method = "bank_transfer" => "bank_account" \in rec.payment_details
         /\ rec.payment_method \in {"credit_card", "paypal", "bank_transfer"}

\* a PayPal purchase without the PayPal email, refused after an earlier
\* purchase of the same user was recorded
C9_Witness ==
  \E rec \in Answered("purchaseCredits") :
    /\ rec.error = ErrPaypalRequired
    /\ Len(PurchasesOfUser(rec.userId)) > 0
    /\ Balance(rec.userId) > 1

C16_Scenario ==
  Waiting = InFlight /\ Len(usersTable) = 1 =>
    /\ Len(postsTable) = 0 /\ Len(creditPurchasesTable) = 0 => Balance(1) = 1
    /\ Len(postsTable) = 1 /\ Len(creditPurchasesTable) = 0 => Balance(1) = 1
    /\ \A rec \in Answered("createPost") :
         rec.error = ErrInsufficient =>
           /\ rec.required = 5 /\ rec.available = 1
           /\ rec.writes = 0 /\ rec.result = 0
           /\ Len(creditPurchasesTable) = 0 =>
                Len(postsTable) = 1 /\ Balance(1) = 1
    /\ Len(postsTable) = 1 /\ Len(creditPurchasesTable) = 1 =>
         /\ creditPurchasesTable[1].credits_purchased = 25
         /\ creditPurchasesTable[1].amount_paid = 500
         /\ Balance(1) = 26
         /\ \A rec \in Succeeded("purchaseCredits") :
              SameNumber(rec.amount_paid, Quotient(5, 1))
    /\ Len(postsTable) = 2 /\ Len(creditPurchasesTable) = 1 => Balance(1) = 21

\* the session of the claim, run to its end: the first post was free, the
\* second was refused with 1 credit, 25 credits were bought with a balance of
\* 1, and the second post was then created with a balance of 26
C16_Witness ==
  /\ Waiting = InFlight /\ Len(usersTable) = 1
  /\ Len(postsTable) = 2 /\ Len(creditPurchasesTable) = 1
  /\ Balance(1) = 21
  /\ \E rec \in Succeeded("createPost") : rec.result = 1 /\ rec.user_credits = 1
  /\ \E rec \in Answered("createPost") :
       rec.error = ErrInsufficient /\ rec.available = 1
  /\ \E rec \in Succeeded("purchaseCredits") :
       rec.user_credits = 1 /\ rec.credits = 25
  /\ \E rec \in Succeeded("createPost") : rec.result = 2 /\ rec.user_credits = 26

\* ------------------------------------------------- claims, 24 h variant
\* the posts a request has returned
ReturnedPosts(rec) == {rec.result[i] : i \in 1..Len(rec.result)}

\* the answers that carry posts
PostAnswers ==
  {rec \in Waiting :
     rec.op \in {"createPost", "getPost", "getPosts", "updatePost", "repost"}}

\* the request rec has taken the step that leaves it as new
Became(rec, new) == req' = (req (-) SetToBag({rec})) (+) SetToBag({new})

\* C11: every post that createPost, getPost, getPosts, updatePost or repost
\* returns carries is_active = TRUE exactly when the clock at the time of the
\* answer is strictly before the post's expires_at.
C11_ActiveIffBeforeExpiry ==
  \A rec \in PostAnswers :
    \A p \in ReturnedPosts(rec) : p.is_active <=> rec.at < p.expires_at

\* C12: the row createPost has just inserted has expires_at 24 hours after
\* posted_at and created_at = updated_at = posted_at; the row repost has just
\* updated has expires_at 24 hours after posted_at; the row returned is the
\* row persisted.
C12_WindowAfterCreateOrRepost ==
  \A rec \in Waiting :
    rec.op \in {"createPost", "repost"} /\ rec.error = "none" =>
      LET rows == PostsById(rec.id) IN
        /\ Len(rows) = 1
        /\ rows[1].expires_at = rows[1].posted_at + TicksPerDay
        /\ rows[1].posted_at = rec.now
        /\ rec.op = "createPost" =>
             /\ rows[1].created_at = rows[1].posted_at
             /\ rows[1].updated_at = rows[1].posted_at
        /\ rec.result[1].posted_at = rows[1].posted_at
        /\ rec.result[1].expires_at = rows[1].expires_at
        /\ rec.result[1].created_at = rows[1].created_at
        /\ rec.result[1].updated_at = rows[1].updated_at

\* a post reposted after its first window had gone by
C12_Witness ==
  \E rec \in Waiting :
    /\ rec.op = "repost" /\ rec.error = "none"
    /\ rec.result[1].posted_at > rec.result[1].created_at + TicksPerDay
    /\ rec.result[1].expires_at = rec.result[1].posted_at + TicksPerDay

\* the rows of the table other than the row of an id are left as they were
OthersUnchanged(id) ==
  /\ Len(postsTable') = Len(postsTable)
  /\ \A i \in 1..Len(postsTable) :
       postsTable[i].id # id => postsTable'[i] = postsTable[i]

\* C13: the step by which repost(id) writes: when the id exists, whether the
\* post is active or expired, the row gets posted_at = updated_at = the time
\* of the call and expires_at 24 hours later, keeps id, title, content, price
\* and created_at, every other row stays as it was, and the answer carries
\* the new row with is_active = TRUE; when the id is absent the answer is
\* 'Post with id N not found' for that id and the table stays as it was.
C13_RepostFrame ==
  [][\A rec \in BagToSet(req), new \in BagToSet(req') :
       (/\ rec.op = "repost" /\ rec.pc = "update"
        /\ new.op = "repost" /\ new.pc = "done" /\ new.error # ErrDatabase
        /\ Became(rec, new))
       =>
       IF \E i \in 1..Len(postsTable) : postsTable[i].id = new.id
         THEN /\ new.error = "none"
              /\ OthersUnchanged(new.id)
              /\ \A i \in 1..Len(postsTable) :
                   postsTable[i].id = new.id =>
                     /\ postsTable'[i].posted_at = rec.now
                     /\ postsTable'[i].updated_at = rec.now
                     /\ postsTable'[i].expires_at = rec.now + TicksPerDay
                     /\ postsTable'[i].id = postsTable[i].id
                     /\ postsTable'[i].title = postsTable[i].title
                     /\ postsTable'[i].content = postsTable[i].content
                     /\ postsTable'[i].price = postsTable[i].price
                     /\ postsTable'[i].created_at = postsTable[i].created_at
                     /\ new.result[1].id = new.id
                     /\ new.result[1].posted_at = rec.now
                     /\ new.result[1].created_at = postsTable[i].created_at
                     /\ new.result[1].is_active
         ELSE /\ new.error = ErrPostNotFound /\ new.error_id = new.id
              /\ new.result = <<>>
              /\ postsTable' = postsTable
    ]_vars

\* an expired post reposted while the table holds another post
C13_Witness ==
  \E rec \in Waiting :
    /\ rec.op = "repost" /\ rec.error = "none"
    /\ Len(postsTable) = 2
    /\ rec.result[1].posted_at > rec.result[1].created_at + TicksPerDay
    /\ rec.result[1].is_active

\* C14: the step by which updatePost(id, partial) writes: when the id exists
\* the row takes each of title, content and price that the input provides,
\* keeps each it omits, gets updated_at = the time of the call and keeps
\* posted_at, expires_at and created_at, and every other row stays as it
\* was; when the id is absent the answer is 'Post with id N not found' for
\* that id and the table stays as it was.
C14_UpdateFrame ==
  [][\A rec \in BagToSet(req), new \in BagToSet(req') :
       (/\ rec.op = "updatePost" /\ rec.pc = "update"
        /\ new.op = "updatePost" /\ new.pc = "done" /\ new.error # ErrDatabase
        /\ Became(rec, new))
       =>
       IF \E i \in 1..Len(postsTable) : postsTable[i].id = new.id
         THEN /\ new.error = "none"
              /\ OthersUnchanged(new.id)
              /\ \A i \in 1..Len(postsTable) :
                   postsTable[i].id = new.id =>
                     LET old == postsTable[i]
                         row == postsTable'[i]
                     IN /\ row.id = old.id
                        /\ \A v \in new.title : row.title = v
                        /\ new.title = {} => row.title = old.title
                        /\ \A v \in new.content : row.content = v
                        /\ new.content = {} => row.content = old.content
                        /\ \A v \in new.price :
                             SameNumber(parseFloat(row.price, NumericScale),
                                        parseFloat(NumericColumn(v, NumericScale),
                                                   NumericScale))
                        /\ new.price = {} => row.price = old.price
                        /\ row.updated_at = rec.now
                        /\ row.posted_at = old.posted_at
                        /\ row.expires_at = old.expires_at
                        /\ row.created_at = old.created_at
                        /\ new.result[1].expires_at = old.expires_at
                        /\ new.result[1].is_active <=> new.at < old.expires_at
         ELSE /\ new.error = ErrPostNotFound /\ new.error_id = new.id
              /\ new.result = <<>>
              /\ postsTable' = postsTable
    ]_vars

\* the title alone of an expired post updated: the post stays expired
C14_Witness ==
  \E rec \in Waiting :
    /\ rec.op = "updatePost" /\ rec.error = "none"
    /\ rec.title # {} /\ rec.content = {} /\ rec.price = {}
    /\ Len(postsTable) = 2
    /\ rec.now > rec.result[1].expires_at
    /\ ~rec.result[1].is_active

\* no row of the table has the id
Absent(id) == \A i \in 1..Len(postsTable) : postsTable[i].id # id

\* the answers to deletePost and getPost tell whether the id exists
C15_Answers ==
  \A rec \in Waiting :
    /\ rec.op = "deletePost" /\ rec.error = ErrPostNotFound =>
         Absent(rec.id) /\ rec.error_id = rec.id
    /\ rec.op = "deletePost" /\ rec.error = "none" => Absent(rec.id)
    /\ rec.op = "getPost" => (rec.result = <<>> <=> Absent(rec.id))

\* what a step of deletePost does to the table
C15_Steps ==
  /\ \A new \in BagToSet(req') :
       (/\ new.op = "deletePost" /\ new.error = ErrPostNotFound
        /\ req' = req (+) SetToBag({new}))
       => postsTable' = postsTable
  /\ \A rec \in BagToSet(req), new \in BagToSet(req') :
       (/\ rec.op = "deletePost" /\ rec.pc = "delete"
        /\ new.op = "deletePost" /\ new.pc = "done" /\ new.error # ErrDatabase
        /\ Became(rec, new))
       =>
       /\ new.error = "none"
       /\ Len(postsTable') = Len(postsTable) - 1
       /\ \A i \in 1..Len(postsTable) :
            postsTable[i].id # rec.id =>
              \E j \in 1..Len(postsTable') : postsTable'[j] = postsTable[i]
       /\ \A j \in 1..Len(postsTable') : postsTable'[j].id # rec.id
  /\ \A id \in 1..posts_id_seq :
       Absent(id) => \A j \in 1..Len(postsTable') : postsTable'[j].id # id

\* C15: deletePost of an id that does not exist fails with 'Post with id N
\* not found' and leaves the table as it was; deletePost of an existing id
\* removes the row of that id and no other; an id once removed stays absent,
\* so that every later getPost of it returns null and every later deletePost
\* of it fails with not found.
C15_DeleteThenNotFound == []C15_Answers /\ [][C15_Steps]_vars

\* a second deletePost of a post that was deleted, another post remaining
C15_Witness ==
  \E rec \in Waiting :
    /\ rec.op = "deletePost" /\ rec.error = ErrPostNotFound
    /\ rec.id <= posts_id_seq
    /\ Len(postsTable) = 1

\* C17: a read (getPost, getPosts) of a post whose window began at posted_at,
\* the time of its creation or of its last repost: expires_at is posted_at
\* plus 24 hours; read before that instant the post is active; read after it
\* the post is inactive, and it stays so until a repost moves posted_at.
C17_WindowLifecycle ==
  \A rec \in Waiting :
    rec.op \in {"getPost", "getPosts"} =>
      \A p \in ReturnedPosts(rec) :
        /\ p.expires_at = p.posted_at + TicksPerDay
        /\ p.posted_at >= p.created_at
        /\ rec.at < p.posted_at + TicksPerDay => p.is_active
        /\ rec.at > p.posted_at + TicksPerDay => ~p.is_active

\* a post read as active again after a repost that came when its first window
\* had gone by
C17_Witness ==
  \E rec \in Waiting :
    /\ rec.op \in {"getPost", "getPosts"}
    /\ \E p \in ReturnedPosts(rec) :
         /\ p.posted_at > p.created_at + TicksPerDay
         /\ p.is_active
         /\ p.expires_at = p.posted_at + TicksPerDay

\* --------------------------------------------------- claims, public listing
UserById(users, userId) ==
  users[CHOOSE k \in 1..Len(users) : users[k].id = userId]

\* C18: getPublicPosts returns one record for each post whose expires_at is
\* later than the current time and none for any other post, newest created
\* first, each record carrying the post's fields and the phone_number of the
\* post's owner.
C18_PublicListing ==
  \A rec \in Waiting :
    rec.op = "getPublicPosts" =>
      LET n == Len(rec.result) IN
        /\ \A i \in 1..Len(postsTable) :
             postsTable[i].expires_at > rec.at <=>
               \E k \in 1..n : rec.result[k].id = postsTable[i].id
        /\ \A k, l \in 1..n : k # l => rec.result[k].id # rec.result[l].id
        /\ \A k, l \in 1..n :
             k < l => rec.result[k].created_at >= rec.result[l].created_at
        /\ \A k \in 1..n :
             \E i \in 1..Len(postsTable) :
               /\ postsTable[i].id = rec.result[k].id
               /\ rec.result[k].title = postsTable[i].title
               /\ rec.result[k].description = postsTable[i].description
               /\ rec.result[k].image_path = postsTable[i].image_path
               /\ rec.result[k].created_at = postsTable[i].created_at
               /\ rec.result[k].expires_at = postsTable[i].expires_at
               /\ rec.result[k].phone_number =
                    UserById(usersTable, postsTable[i].user_id).phone_number

\* of two posts of owners with different phone numbers, the older has
\* expired and the newer is listed with its owner's number
C18_Witness ==
  \E rec \in Waiting :
    /\ rec.op = "getPublicPosts"
    /\ Len(rec.result) = 1 /\ Len(postsTable) = 2
    /\ rec.result[1].id = 2
    /\ postsTable[1].user_id # postsTable[2].user_id
    /\ usersTable[1].phone_number # usersTable[2].phone_number
    /\ rec.result[1].phone_number
         = UserById(usersTable, postsTable[2].user_id).phone_number

\* the user tables that differ from the table only in email, password_hash
\* and credits
OwnerVariants ==
  {[i \in 1..Len(usersTable) |->
      [usersTable[i] EXCEPT !.email = v[i][1], !.password_hash = v[i][2],
                            !.credits = v[i][3]]] :
     v \in [1..Len(usersTable) ->
              {10, 11} \X PasswordHashes \X {0, 7}]}

\* C19: the records getPublicPosts returns have the fields id, title,
\* description, image_path, phone_number, created_at and expires_at and no
\* other (no email, password_hash, credits or user_id), and the listing of a
\* database is the listing of every database that differs from it only in
\* the owners' email, password_hash and credits.
C19_OwnerFieldsWithheld ==
  /\ \A rec \in Waiting :
       rec.op = "getPublicPosts" =>
         \A k \in 1..Len(rec.result) :
           DOMAIN rec.result[k] =
             {"id", "title", "description", "image_path", "phone_number",
              "created_at", "expires_at"}
  /\ req = EmptyBag =>
       \A users \in OwnerVariants :
         PublicListing(postsTable, users, now)
           = PublicListing(postsTable, usersTable, now)

\* a listing of two posts of two owners
C19_Witness ==
  \E rec \in Waiting :
    /\ rec.op = "getPublicPosts"
    /\ Len(rec.result) = 2
    /\ postsTable[1].user_id # postsTable[2].user_id

\* ------------------------------------------------------ claims, registration
\* no two rows of users carry the same email
C20_EmailsDiffer ==
  \A i, j \in 1..Len(usersTable) :
    i # j => usersTable[i].email # usersTable[j].email

\* what a registration does to the table
C20_Steps ==
  /\ \A new \in BagToSet(req') :
       (new.op = "registerUser" /\ req' = req (+) SetToBag({new}))
       =>
       /\ new.error = ErrDuplicateEmail
       /\ \E i \in 1..Len(usersTable) : usersTable[i].email = new.email
       /\ usersTable' = usersTable
  /\ Len(usersTable') > Len(usersTable) =>
       /\ Len(usersTable') = Len(usersTable) + 1
       /\ \A i \in 1..Len(usersTable) : usersTable'[i] = usersTable[i]
       /\ usersTable'[Len(usersTable')].credits = 1
       /\ \A i \in 1..Len(usersTable) :
            usersTable[i].email # usersTable'[Len(usersTable')].email
       /\ req' = req

\* C20: registerUser creates a row with credits = 1; a registration under
\* the email of an existing user is rejected, adds no row and leaves every
\* row as it was; no two rows ever share an email.
C20_RegisterUnique == []C20_EmailsDiffer /\ [][C20_Steps]_vars

\* a registration rejected under the email of a user who has bought credits
\* since, two users being registered
C20_Witness ==
  \E rec \in Waiting :
    /\ rec.op = "registerUser" /\ rec.error = ErrDuplicateEmail
    /\ Len(usersTable) = 2
    /\ \E i \in 1..Len(usersTable) :
         usersTable[i].email = rec.email /\ usersTable[i].credits > 1

\* ------------------------------------------------- claims, account handlers
\* the rows of the users table with exactly the email
RowsWithEmail(email) ==
  {i \in 1..Len(usersTable) : usersTable[i].email = email}

\* the credential is hash:salt with hash the SHA-256 of the password
\* followed by the salt
CredentialOf(password, password_hash) ==
  /\ Len(password_hash) = 2
  /\ password_hash[1] = hashPassword(password, password_hash[2])

C22_CreatedAtKept ==
  \A i \in 1..Len(postsTable), j \in 1..Len(postsTable') :
    postsTable[i].id = postsTable'[j].id =>
      postsTable'[j].created_at = postsTable[i].created_at

C22_UpdatedAfterCreated ==
  \A i \in 1..Len(postsTable) :
    postsTable[i].updated_at >= postsTable[i].created_at

C22_Timestamps == []C22_UpdatedAfterCreated /\ [][C22_CreatedAtKept]_vars

\* C23: of the deletePost requests for one id, whatever the order of their
\* steps, at most one succeeds, and every other fails with 'Post with id N
\* not found'.
C23_ConcurrentDeletes ==
  \A id \in PostIds :
    LET answers == {rec \in Answered("deletePost") : rec.id = id}
        succeeded == {rec \in answers : rec.error = "none"}
        failed == answers \ succeeded
    IN /\ Copies(succeeded) <= 1
       /\ \A rec \in failed :
            rec.error = ErrPostNotFound /\ rec.error_id = id

\* C24: every post row createPost of the credits variant has stored has
\* expires_at exactly 24 hours after its created_at.
C24_ExpiryFromCreation ==
  \A i \in 1..Len(postsTable) :
    postsTable[i].expires_at = postsTable[i].created_at + Hours(ExpiryHours)

\* C25: getPosts returns every stored post exactly once, each as its row with
\* is_active computed against the clock of the answer, a post never after
\* one posted earlier; so a reposted post comes before every post whose
\* posted_at is earlier than the repost.
C25_GetPostsOrdered ==
  \A rec \in Answered("getPosts") :
    /\ Len(rec.result) = Len(postsTable)
    /\ \A i \in 1..Len(postsTable) :
         \E k \in 1..Len(rec.result) :
           /\ rec.result[k] =
                Returned(postsTable[i], rec.at < postsTable[i].expires_at)
           /\ \A l \in 1..Len(rec.result) :
                rec.result[l].id = postsTable[i].id => l = k
    /\ \A k, l \in 1..Len(rec.result) :
         rec.result[k].posted_at > rec.result[l].posted_at => k < l

\* post 1 was created before post 2 and reposted after it: the listing has
\* post 1 first
C25_Witness ==
  \E rec \in Answered("getPosts") :
    /\ Len(rec.result) = 2
    /\ rec.result[1].id = 1 /\ rec.result[2].id = 2
    /\ rec.result[1].created_at < rec.result[2].created_at
    /\ rec.result[1].posted_at > rec.result[2].posted_at

\* the indices of the rows of a table that belong to a user
OwnedBy(table, userId) == {i \in 1..Len(table) : table[i].user_id = userId}

\* C26: getUserPosts(u) returns exactly the posts whose user_id is u, each
\* once, expired ones included, none created later than one before it in
\* the list; getCreditHistory(u) returns exactly the purchases whose user_id
\* is u in the same order; both succeed, with an empty list when no row is
\* owned by u, as for a user id that does not exist.
C26_OwnListings ==
  /\ \A rec \in Answered("getUserPosts") :
       LET own == OwnedBy(postsTable, rec.userId) IN
         /\ rec.error = "none"
         /\ Len(rec.result) = Cardinality(own)
         /\ \A i \in own :
              \E k \in 1..Len(rec.result) : rec.result[k] = UserPost(postsTable[i])
         /\ \A k \in 1..Len(rec.result) : rec.result[k].user_id = rec.userId
         /\ \A k, l \in 1..Len(rec.result) :
              k < l => rec.result[k].created_at >= rec.result[l].created_at
  /\ \A rec \in Answered("getCreditHistory") :
       LET own == OwnedBy(creditPurchasesTable, rec.userId) IN
         /\ rec.error = "none"
         /\ Len(rec.result) = Cardinality(own)
         /\ \A i \in own :
              \E k \in 1..Len(rec.result) :
                rec.result[k] = HistoryEntry(creditPurchasesTable[i])
         /\ \A k \in 1..Len(rec.result) : rec.result[k].user_id = rec.userId
         /\ \A k, l \in 1..Len(rec.result) :
              k < l => rec.result[k].created_at >= rec.result[l].created_at

\* of two posts of two owners, the listing of one owner holds only that
\* owner's post, which has expired
C26_Witness ==
  \E rec \in Answered("getUserPosts") :
    /\ Len(postsTable) = 2
    /\ postsTable[1].user_id # postsTable[2].user_id
    /\ Len(rec.result) = 1
    /\ rec.result[1].user_id = rec.userId
    /\ rec.result[1].expires_at <= rec.at

\* the handlers that only read
Readers ==
  {"loginUser", "getUserProfile", "getUserPosts", "getCreditHistory",
   "getPublicPosts"}

\* C27: the step in which loginUser (successful or not), getUserProfile,
\* getUserPosts, getCreditHistory or getPublicPosts is answered leaves the
\* users, posts and purchases as they were; getUserProfile(u) returns the row
\* of u with the credits stored at that moment, and fails with User not
\* found when no row has the id.
C27_Steps ==
  \A new \in BagToSet(req') :
    new.op \in Readers /\ CopiesIn(new, req') > CopiesIn(new, req) =>
      /\ usersTable' = usersTable
      /\ postsTable' = postsTable
      /\ creditPurchasesTable' = creditPurchasesTable

C27_Profile ==
  \A rec \in Answered("getUserProfile") :
    IF UserExists(rec.userId)
      THEN /\ rec.error = "none"
           /\ rec.result.id = rec.userId
           /\ rec.result.credits = Balance(rec.userId)
           /\ rec.result.email = UsersById(rec.userId)[1].email
           /\ rec.result.phone_number = UsersById(rec.userId)[1].phone_number
      ELSE rec.error = ErrUserNotFound /\ rec.result = 0

C27_ReadOnly == []C27_Profile /\ [][C27_Steps]_vars

\* the profile of a user who has bought credits and created posts shows the
\* balance of that moment
C27_Witness ==
  \E rec \in Succeeded("getUserProfile") :
    /\ Len(creditPurchasesTable) > 0
    /\ Len(PostsOfUser(rec.userId)) = 2
    /\ rec.result.credits = Balance(rec.userId)
    /\ rec.result.credits # InitialCredits

\* the row is as registerUser writes it for the password
RegisteredWith(user, password) ==
  /\ Len(user.password_hash) = 2
  /\ user.password_hash = passwordHash(password, user.password_hash[1])

\* C28: a login under the email and the password a row was registered with
\* succeeds and returns the id of that row.
C28_RegisterThenLogin ==
  \A rec \in Answered("loginUser") :
    \A i \in RowsWithEmail(rec.email) :
      RegisteredWith(usersTable[i], rec.password) =>
        /\ rec.error = "none"
        /\ rec.result = [user_id |-> usersTable[i].id, email |-> rec.email]

\* the posts of a user that were inserted by a request that took the post
\* for the first and charged nothing
IsFree(p) == ~p.paid

FreePostsOfUser(userId) == SelectSeq(PostsOfUser(userId), IsFree)

\* C29: whatever the order of the steps of the createPost requests of a
\* user, at most one of the user's posts was created without the debit of 5
\* credits.
C29_OneFreePost ==
  \A userId \in UserIds : Len(FreePostsOfUser(userId)) <= 1

\* C30: when handlePurchase has settled a purchase the server accepted, the
\* credits the application holds are the credits stored for the user; when
\* it has settled one the server rejected, they are what they were at the
\* click.
C30_ClientBalance ==
  client.call.pc = "settled" =>
    IF client.call.accepted
      THEN client.credits = Balance(client.user_id)
      ELSE client.credits = client.call.currentCredits

====
